---- MODULE Spec2Model ----
(***************************************************************************)
(* kube2iam: the pod store (cmd/store.go), the IAM client's AssumeRole in  *)
(* its two implementations (the ccache-backed one and the aws-sdk-go-v2    *)
(* one) and the role-credentials handler of server/server.go.              *)
(*                                                                         *)
(* SpecStore   the IP -> role index, its event handlers and its readers.   *)
(* SpecBroker  requests to the role-credentials route and the AssumeRole   *)
(*             they call, over a clock.                                    *)
(* SpecOpen    SpecBroker with namespace restriction switched off.         *)
(* SpecName    sessionName and getHash of the iam package.                 *)
(* SpecServer  the router of Server.Run and the handlers behind it.        *)
(* SpecPolled  SpecServer with the health poller running.                  *)
(* SpecProbed  SpecServer beside a metadata endpoint that fails and        *)
(*             recovers, with its request handling scheduled fairly.       *)
(* SpecRetry   getExternalIDMapping and the backoff.Retry loop it runs.    *)
(* SpecExternalID  AssumeRole of the ccache build under callers that       *)
(*             present external IDs.                                       *)
(***************************************************************************)
EXTENDS Integers, Sequences, FiniteSets, TLC

(***************************************************************************)
(* cmd/store.go                                                            *)
(***************************************************************************)

\* pod.Status.PodIP: "" while the pod is not scheduled yet.
PodIPs == {"", "10.0.0.1", "10.0.0.2"}

\* Values of the pod annotation s.iamRoleKey.
Roles == {"R1", "R2"}

\* pod.Annotations[s.iamRoleKey] is absent (the `ok` of the map lookup is false).
NoAnnotation == "<no annotation>"

\* store.defaultRole, set once by newStore.
defaultRole == "default-role"

\* An interface{} value that is not a *api.Pod (the type assertion fails).
NotAPod == [isPod |-> FALSE, ip |-> "", role |-> NoAnnotation]

\* The *api.Pod values, by the two fields the store reads.
Pods == [isPod : {TRUE}, ip : PodIPs, role : Roles \cup {NoAnnotation}]

\* Everything a handler can be called with.
Objs == Pods \cup {NotAPod}

None == [none |-> TRUE]

VARIABLES
    rolesByIP,  \* store.rolesByIP: a map, here a function on the keys present
    upd,        \* OnUpdate between its OnDelete and its OnAdd: [new, pre], else None
    got,        \* a reader's Get that has returned: [ip, role], else None
    lastEv,     \* history: the last handler call, [op, obj, newObj]
    repeated,   \* history: the last handler call had the arguments of the one before
    scn         \* history: progress through the IP reuse scenario

storeVars == <<rolesByIP, upd, got, lastEv, repeated, scn>>

VARIABLES
    impl,       \* which iam package the binary is built with: "ccache" or "sdkv2"
    now,        \* time.Now(), in seconds
    cache,      \* the package-level ccache: role ARN -> [creds, expires], else None
    issued,     \* the number of sts AssumeRole calls that have returned
    pc,         \* per request goroutine: "idle", "fetch" (in the sts call), "done"
    req,        \* per request: [role, stale, peers], else None
    resp        \* per request: [status, creds, err, remote], else None

brokerVars == <<impl, now, cache, issued, pc, req, resp>>

VARIABLES
    sess        \* the last sessionName call: [roleARN, remoteIP, name], else None

nameVars == <<sess>>

VARIABLES
    NamespaceRestriction,   \* Server.NamespaceRestriction, fixed at start
    iamBaseARN,             \* iam.Client.BaseARN as a text, <<>> when not set
    Debug                   \* Server.Debug, fixed at start

cfgVars == <<NamespaceRestriction, iamBaseARN, Debug>>

VARIABLES
    HealthcheckFailReason,  \* Server.HealthcheckFailReason
    InstanceID,             \* Server.InstanceID
    serving,    \* the process is running http.ListenAndServe
    rq,         \* the request being served: [method, path, token, RemoteAddr,
                \* from], from being RemoteAddr as it arrived; else None
    route,      \* the handler the router gave the request to, "" with no request
    hstep,      \* where that handler is: "idle", "dispatched", "failing", "finished"
    w,          \* the http.ResponseWriter: [status, body, aborted]
    fwd,        \* the request the reverse proxy sent on: [method, path, RemoteAddr], else None
    fault,      \* history: the value the handler panicked with, else None
    mapped,     \* history: what getRoleMapping returned to the handler, else None
    calls       \* history: the remote services called while handling the request

serverVars == <<HealthcheckFailReason, InstanceID, serving, rq, route, hstep,
                w, fwd, fault, mapped, calls>>

\* The instance metadata endpoint behind s.MetadataAddress answers the
\* instance-id request with 200 and the id (TRUE) or fails (FALSE).
VARIABLES
    metadataUp

envVars == <<metadataUp>>

VARIABLES
    eid         \* the getExternalIDMapping call: [IP, budget, step, elapsed,
                \* externalID, err], step being "operation", "backoff" or
                \* "returned"; else None

retryVars == <<eid>>

vars == <<rolesByIP, upd, got, lastEv, repeated, scn,
          impl, now, cache, issued, pc, req, resp,
          sess, NamespaceRestriction, iamBaseARN, Debug,
          HealthcheckFailReason, InstanceID, serving, rq, route, hstep,
          w, fwd, fault, mapped, calls, metadataUp, eid>>

\* What the store's handlers, and what the role-credentials requests, leave
\* alone.
aroundStore == <<brokerVars, nameVars, cfgVars, serverVars, envVars, retryVars>>
aroundBroker == <<storeVars, nameVars, cfgVars, serverVars, envVars, retryVars>>
aroundName == <<storeVars, brokerVars, cfgVars, serverVars, envVars, retryVars>>

\* make(map[string]string)
EmptyMap == [x \in {} |-> defaultRole]

\* Get without the fallback: the zero value of a missing key.
GetRoleNoDefault(m, IP) == IF IP \in DOMAIN m THEN m[IP] ELSE ""

\* s.rolesByIP[IP] with the map's `ok`, then the fallback (Get's body).
GetRole(m, IP) == IF IP \in DOMAIN m THEN m[IP] ELSE defaultRole

\* OnAdd that treats an IP already present as a conflict and drops the entry.
OnAddMapDropDup(m, obj) ==
    IF obj.isPod /\ obj.role # NoAnnotation /\ obj.ip # ""
    THEN IF obj.ip \in DOMAIN m
         THEN [x \in DOMAIN m \ {obj.ip} |-> m[x]]
         ELSE [x \in DOMAIN m \cup {obj.ip} |-> IF x = obj.ip THEN obj.role ELSE m[x]]
    ELSE m

\* OnAdd without the test of pod.Status.PodIP.
OnAddMapAnyIP(m, obj) ==
    IF obj.isPod /\ obj.role # NoAnnotation
    THEN [x \in DOMAIN m \cup {obj.ip} |-> IF x = obj.ip THEN obj.role ELSE m[x]]
    ELSE m

\* OnAdd taking a pod without the annotation as the end of its IP's entry.
OnAddMapUnannotatedClears(m, obj) ==
    IF obj.isPod /\ obj.ip # ""
    THEN IF obj.role # NoAnnotation
         THEN [x \in DOMAIN m \cup {obj.ip} |-> IF x = obj.ip THEN obj.role ELSE m[x]]
         ELSE [x \in DOMAIN m \ {obj.ip} |-> m[x]]
    ELSE m

\* The map after OnAdd(obj).
OnAddMap(m, obj) ==
    IF obj.isPod /\ obj.role # NoAnnotation /\ obj.ip # ""
    THEN [x \in DOMAIN m \cup {obj.ip} |-> IF x = obj.ip THEN obj.role ELSE m[x]]
    ELSE m

\* The map after OnDelete(obj).
OnDeleteMap(m, obj) ==
    IF obj.isPod /\ obj.ip # ""
    THEN [x \in DOMAIN m \ {obj.ip} |-> m[x]]
    ELSE m

Ev(op, obj, newObj) == [op |-> op, obj |-> obj, newObj |-> newObj]

\* The IP reuse scenario: add(A, R1), update of that pod A -> B, add(A, R2) for
\* another pod, with one delete of the stale (A, R1) pod at any point after the
\* first add. scn.stage counts the first three, scn.del the delete; any other
\* handler call leaves the scenario for good.
ScnA == "10.0.0.1"
ScnB == "10.0.0.2"
ScnPod1 == [isPod |-> TRUE, ip |-> ScnA, role |-> "R1"]
ScnPod1Moved == [isPod |-> TRUE, ip |-> ScnB, role |-> "R1"]
ScnPod2 == [isPod |-> TRUE, ip |-> ScnA, role |-> "R2"]
ScnOff == [stage |-> 0, del |-> FALSE, on |-> FALSE]

ScnNext(ev) ==
    IF ~scn.on THEN ScnOff
    ELSE IF ev = Ev("add", ScnPod1, ScnPod1) /\ scn.stage = 0
        THEN [scn EXCEPT !.stage = 1]
    ELSE IF ev = Ev("update", ScnPod1, ScnPod1Moved) /\ scn.stage = 1
        THEN [scn EXCEPT !.stage = 2]
    ELSE IF ev = Ev("add", ScnPod2, ScnPod2) /\ scn.stage = 2
        THEN [scn EXCEPT !.stage = 3]
    ELSE IF ev = Ev("delete", ScnPod1, ScnPod1) /\ scn.stage >= 1 /\ ~scn.del
        THEN [scn EXCEPT !.del = TRUE]
    ELSE ScnOff

Record(ev) ==
    /\ lastEv' = ev
    /\ repeated' = (ev = lastEv)
    /\ scn' = ScnNext(ev)

InitStore ==
    /\ rolesByIP = EmptyMap
    /\ upd = None
    /\ got = None
    /\ lastEv = Ev("init", NotAPod, NotAPod)
    /\ repeated = FALSE
    /\ scn = [stage |-> 0, del |-> FALSE, on |-> TRUE]

\* The informer calls the handlers one at a time: a new call starts only when
\* the previous one has returned.
OnAdd(obj) ==
    /\ upd = None
    /\ rolesByIP' = OnAddMap(rolesByIP, obj)
    /\ Record(Ev("add", obj, obj))
    /\ UNCHANGED <<upd, got>>
    /\ UNCHANGED aroundStore

OnDelete(obj) ==
    /\ upd = None
    /\ rolesByIP' = OnDeleteMap(rolesByIP, obj)
    /\ Record(Ev("delete", obj, obj))
    /\ UNCHANGED <<upd, got>>
    /\ UNCHANGED aroundStore

\* OnUpdate up to the point where it first releases the mutex. With two pods
\* whose IPs differ that is after s.OnDelete(oldPod); s.OnAdd(newPod) takes the
\* mutex again (OnUpdateAdd), so a reader can run in between.
OnUpdate(oldObj, newObj) ==
    /\ upd = None
    /\ Record(Ev("update", oldObj, newObj))
    /\ IF oldObj.isPod /\ newObj.isPod
       THEN IF oldObj.ip # newObj.ip
            THEN /\ rolesByIP' = OnDeleteMap(rolesByIP, oldObj)
                 /\ upd' = [new |-> newObj, pre |-> rolesByIP]
            ELSE UNCHANGED <<rolesByIP, upd>>
       ELSE IF newObj.isPod
            THEN /\ rolesByIP' = OnAddMap(rolesByIP, newObj)
                 /\ upd' = upd
       ELSE IF oldObj.isPod
            THEN /\ rolesByIP' = OnDeleteMap(rolesByIP, oldObj)
                 /\ upd' = upd
       ELSE UNCHANGED <<rolesByIP, upd>>
    /\ UNCHANGED got
    /\ UNCHANGED aroundStore

\* The s.OnAdd(newPod) that ends an OnUpdate of a pod whose IP changed.
OnUpdateAdd ==
    /\ upd # None
    /\ rolesByIP' = OnAddMap(rolesByIP, upd.new)
    /\ upd' = None
    /\ UNCHANGED <<got, lastEv, repeated, scn>>
    /\ UNCHANGED aroundStore

\* A request goroutine's Get: under the read lock, so at any point where no
\* handler holds the write lock, the middle of an OnUpdate included.
Get(IP) ==
    /\ got = None
    /\ got' = [ip |-> IP, role |-> GetRole(rolesByIP, IP)]
    /\ UNCHANGED <<rolesByIP, upd, lastEv, repeated, scn>>
    /\ UNCHANGED aroundStore

\* The reader is done with the value.
GetReturn ==
    /\ got # None
    /\ got' = None
    /\ UNCHANGED <<rolesByIP, upd, lastEv, repeated, scn>>
    /\ UNCHANGED aroundStore

NextStore ==
    \/ \E obj \in Objs : OnAdd(obj)
    \/ \E obj \in Objs : OnDelete(obj)
    \/ \E oldObj \in Objs, newObj \in Objs : OnUpdate(oldObj, newObj)
    \/ OnUpdateAdd
    \/ \E IP \in PodIPs : Get(IP)
    \/ GetReturn

(***************************************************************************)
(* server/server.go roleHandler and the iam package's AssumeRole           *)
(***************************************************************************)

\* Request goroutines that can be in roleHandler at once.
NumCallers == 2

\* The sts calls made in one run.
MaxCalls == 3

\* The clock advances TickStep seconds at a time up to MaxTime.
TickStep == 5
MaxTime == 15

\* The duration handed to cache.Fetch, 10*time.Second, in seconds.
CacheTTL == 10

Callers == 1 .. NumCallers

\* parseRemoteAddr(r.RemoteAddr) of a request: goroutine 1 serves the pod at
\* 10.0.0.5, the others the pod at 10.0.0.6.
RemoteIP(c) == IF c = 1 THEN "10.0.0.5" ELSE "10.0.0.6"

\* mux.Vars(r)["role"] of the requests.
WantedRoles == {"payments-svc", "other-role"}

\* iam.Client.BaseARN
BaseARN == "arn:aws:iam::111:role/"

\* s.iam.RoleARN(wantedRole): the base ARN followed by the role name.
RoleARN(role) == BaseARN \o role

\* The role ARNs a request can be about: those of the roles named in request
\* paths and that of the store's fallback role.
ARNs == {RoleARN(role) : role \in WantedRoles \cup {defaultRole}}

\* What iam.StsService.AssumeRole returns: credentials or an awserr code.
StsOutcomes == {"ok", "AccessDenied", "Throttling"}

\* The namespace authorization of the role mapper: with enforcement on, the
\* pod at 10.0.0.5 is in namespace payments, whose allow-list payments-* admits
\* payments-svc alone of the roles requested here; the pod at 10.0.0.6 is in a
\* namespace with no restriction record, which admits nothing.
NamespaceOf(ip) == IF ip = "10.0.0.5" THEN "payments" ELSE "batch"
AllowedRoles(ns) == IF ns = "payments" THEN {"payments-svc"} ELSE {}
IsAuthorized(ip, role) ==
    ~NamespaceRestriction \/ role \in AllowedRoles(NamespaceOf(ip))

\* defaultMaxElapsedTime, the server's only elapsed-time budget, in seconds.
BackoffMaxElapsedTime == 1

\* ccache's Item.Expired with the comparison turned round.
ExpiredReversed(item, t) == item.expires > t

\* ccache's Item.Expired: the item's expiry instant is in the past.
Expired(item, t) == item.expires < t

\* cache.Fetch's first step: Get(key) found an item and it has not expired.
\* The package built on aws-sdk-go-v2 has no cache.
CacheHit(arn) ==
    impl = "ccache" /\ cache[arn] # None /\ ~Expired(cache[arn], now)

\* The requests inside the sts call for a role ARN.
Fetching(arn) == {c \in Callers : pc[c] = "fetch" /\ req[c].arn = arn}

InFlight == Cardinality({c \in Callers : pc[c] = "fetch"})

InitBroker ==
    /\ impl \in {"ccache", "sdkv2"}
    /\ now = 0
    /\ cache = [arn \in ARNs |-> None]
    /\ issued = 0
    /\ pc = [c \in Callers |-> "idle"]
    /\ req = [c \in Callers |-> None]
    /\ resp = [c \in Callers |-> None]

\* roleHandler brokering for the role the store resolves for the caller's
\* address instead of the role of the path.
BrokeredRoleResolved(remoteIP, wantedRole) == GetRole(rolesByIP, remoteIP)

\* The role whose ARN roleHandler hands to s.iam.AssumeRole: mux.Vars(r)["role"]
\* as it is. remoteIP goes to AssumeRole for the session name only, and the
\* store is not read.
BrokeredRole(remoteIP, wantedRole) == wantedRole

\* iam.Client.AssumeRole leaving the cache aside for a caller that presents
\* an external ID.
FetchHitNoExternalID(roleARN, externalID) == CacheHit(roleARN) /\ externalID = ""

\* cache.Fetch(roleARN, ...) finds a live item: the key is the role ARN alone,
\* the external ID and the caller's address are used inside the fetch
\* callback only.
FetchHit(roleARN, externalID) == CacheHit(roleARN)

\* The external IDs a caller presents to AssumeRole: the first caller X, the
\* second Y or none, any other none.
ExternalIDs(c) == IF c = 1 THEN {"X"} ELSE IF c = 2 THEN {"Y", ""} ELSE {""}

\* iam.Client.AssumeRole(roleARN, externalID, remoteIP, ttl) from its start to
\* the point where it either has its answer from the cache or is about to
\* call sts. req records, for the claims, the role of the path, the
\* credentials of the expired item Fetch found, 0 with none (stale), and which
\* requests were inside the sts call for the same role ARN at that moment
\* (peers).
AssumeRole(c, wantedRole, roleARN, externalID) ==
    LET item == cache[roleARN]
    IN  /\ pc[c] = "idle"
        /\ IF FetchHit(roleARN, externalID)
           THEN /\ pc' = [pc EXCEPT ![c] = "done"]
                /\ req' = [req EXCEPT ![c] = [role |-> wantedRole, arn |-> roleARN,
                                              externalID |-> externalID,
                                              stale |-> 0, peers |-> {}]]
                /\ resp' = [resp EXCEPT ![c] = [status |-> 200, creds |-> item.creds,
                                                err |-> "", remote |-> FALSE]]
           ELSE /\ issued + InFlight < MaxCalls
                /\ pc' = [pc EXCEPT ![c] = "fetch"]
                /\ req' = [req EXCEPT ![c] =
                             [role |-> wantedRole, arn |-> roleARN,
                              externalID |-> externalID,
                              stale |-> IF impl = "ccache" /\ item # None
                                        THEN item.creds ELSE 0,
                              peers |-> Fetching(roleARN)]]
                /\ resp' = resp
        /\ UNCHANGED <<impl, now, cache, issued>>
        /\ UNCHANGED aroundBroker

\* roleHandler up to the return of the cache lookup in s.iam.AssumeRole: the
\* ARN is built from the role of the path, the external ID handed over is ""
\* and no authorization is looked up on the way.
roleHandler(c, wantedRole) ==
    AssumeRole(c, wantedRole, RoleARN(BrokeredRole(RemoteIP(c), wantedRole)), "")

\* AssumeRole called for a role ARN with an external ID of the caller's.
AssumeRoleWithExternalID(c, role, externalID) ==
    AssumeRole(c, role, RoleARN(role), externalID)

\* roleHandler answering an AssumeRole error with the status of a fault.
StatusOfAnyError(outcome) == IF outcome = "ok" THEN 200 ELSE 500

\* roleHandler's status for what s.iam.AssumeRole returned: 200 with the
\* credentials, http.StatusServiceUnavailable with an error.
StatusOf(outcome) == IF outcome = "ok" THEN 200 ELSE 503

\* ccache's Fetch with the callback's error handed on and the item stored all
\* the same.
FetchSetOnError(arn, outcome, credentials) ==
    [cache EXCEPT ![arn] = [creds |-> credentials, expires |-> now + CacheTTL]]

\* ccache's Fetch once the callback has returned: the callback's value is
\* stored under the key for CacheTTL, and with an error nothing is stored.
FetchSet(arn, outcome, credentials) ==
    IF outcome = "ok"
    THEN [cache EXCEPT ![arn] = [creds |-> credentials, expires |-> now + CacheTTL]]
    ELSE cache

\* The ccache build: the fetch callback's sts call returns. With credentials,
\* Fetch stores them under the role ARN for CacheTTL and roleHandler answers
\* 200 with them; with an error nothing is stored and roleHandler answers 503
\* with the error's text.
AssumeRoleReturn(c, outcome) ==
    LET arn == req[c].arn
        credentials == issued + 1
    IN  /\ impl = "ccache"
        /\ pc[c] = "fetch"
        /\ issued' = issued + 1
        /\ pc' = [pc EXCEPT ![c] = "done"]
        /\ cache' = FetchSet(arn, outcome, credentials)
        /\ resp' = [resp EXCEPT ![c] =
                      IF outcome = "ok"
                      THEN [status |-> StatusOf(outcome), creds |-> credentials,
                            err |-> "", remote |-> TRUE]
                      ELSE [status |-> StatusOf(outcome), creds |-> 0,
                            err |-> outcome, remote |-> TRUE]]
        /\ UNCHANGED <<impl, now, req>>
        /\ UNCHANGED aroundBroker

\* The aws-sdk-go-v2 build: AssumeRole waits (wg.Wait) for the goroutine that
\* makes the sts call, then returns its credentials or its error; nothing is
\* stored.
AssumeRoleV2Return(c, outcome) ==
    /\ impl = "sdkv2"
    /\ pc[c] = "fetch"
    /\ issued' = issued + 1
    /\ pc' = [pc EXCEPT ![c] = "done"]
    /\ resp' = [resp EXCEPT ![c] =
                  IF outcome = "ok"
                  THEN [status |-> StatusOf(outcome), creds |-> issued + 1,
                        err |-> "", remote |-> TRUE]
                  ELSE [status |-> StatusOf(outcome), creds |-> 0,
                        err |-> outcome, remote |-> TRUE]]
    /\ UNCHANGED <<impl, now, cache, req>>
    /\ UNCHANGED aroundBroker

\* The response has been written and the request goroutine ends; it is no
\* longer a peer of the requests that started while it was in the sts call.
RequestEnd(c) ==
    /\ pc[c] = "done"
    /\ pc' = [pc EXCEPT ![c] = "idle"]
    /\ req' = [d \in Callers |->
                 IF d = c THEN None
                 ELSE IF req[d] = None THEN None
                 ELSE [req[d] EXCEPT !.peers = @ \ {c}]]
    /\ resp' = [resp EXCEPT ![c] = None]
    /\ UNCHANGED <<impl, now, cache, issued>>
    /\ UNCHANGED aroundBroker

\* TickStep seconds pass.
Tick ==
    /\ now + TickStep <= MaxTime
    /\ now' = now + TickStep
    /\ UNCHANGED <<impl, cache, issued, pc, req, resp>>
    /\ UNCHANGED aroundBroker

\* The role all the callers with external IDs ask for.
SharedRoles == {"payments-svc"}

\* Callers of AssumeRole that present external IDs.
NextExternalID ==
    \/ \E c \in Callers, role \in SharedRoles :
          \E externalID \in ExternalIDs(c) : AssumeRoleWithExternalID(c, role, externalID)
    \/ \E c \in Callers, outcome \in StsOutcomes : AssumeRoleReturn(c, outcome)
    \/ \E c \in Callers : RequestEnd(c)
    \/ Tick

NextBroker ==
    \/ \E c \in Callers, wantedRole \in WantedRoles : roleHandler(c, wantedRole)
    \/ \E c \in Callers, outcome \in StsOutcomes : AssumeRoleReturn(c, outcome)
    \/ \E c \in Callers, outcome \in StsOutcomes : AssumeRoleV2Return(c, outcome)
    \/ \E c \in Callers : RequestEnd(c)
    \/ Tick

(***************************************************************************)
(* sessionName and getHash of the iam package (the same in both builds)    *)
(***************************************************************************)

\* maxSessNameLength
MaxSessNameLength == 64

\* The longest role name tried.
MaxNameLen == 60

Min(a, b) == IF a < b THEN a ELSE b

\* The byte of a character of an IP address's text.
Ascii(ch) ==
    CASE ch = "." -> 46 [] ch = "0" -> 48 [] ch = "1" -> 49 [] ch = "2" -> 50
      [] ch = "3" -> 51 [] ch = "4" -> 52 [] ch = "5" -> 53 [] ch = "6" -> 54
      [] ch = "7" -> 55 [] ch = "8" -> 56 [] ch = "9" -> 57

HexDigit(d) ==
    <<"0", "1", "2", "3", "4", "5", "6", "7",
      "8", "9", "a", "b", "c", "d", "e", "f">>[d + 1]

RECURSIVE Xor(_, _)
Xor(a, b) ==
    IF a = 0 THEN b
    ELSE IF b = 0 THEN a
    ELSE (((a % 2) + (b % 2)) % 2) + 2 * Xor(a \div 2, b \div 2)

\* hash/fnv's New32a over the bytes of a text, the 32-bit sum kept as its two
\* 16-bit halves: from the offset basis 0x811c9dc5, for each byte the sum is
\* xor-ed with it and multiplied by the prime 0x01000193 modulo 2^32.
RECURSIVE Fnv32a(_, _)
Fnv32a(h, bytes) ==
    IF bytes = <<>> THEN h
    ELSE LET lo == Xor(h.lo, Head(bytes))
             low == lo * 403
         IN  Fnv32a([hi |-> ((h.hi * 403) + (low \div 65536) + ((lo % 256) * 256)) % 65536,
                     lo |-> low % 65536],
                    Tail(bytes))

\* fmt.Sprintf("%x", sum): the hexadecimal digits without leading zeros.
RECURSIVE StripZeros(_)
StripZeros(digits) ==
    IF Len(digits) > 1 /\ Head(digits) = "0" THEN StripZeros(Tail(digits))
    ELSE digits

Hex16(n) ==
    <<HexDigit(n \div 4096), HexDigit((n \div 256) % 16),
      HexDigit((n \div 16) % 16), HexDigit(n % 16)>>

\* getHash(text): the fnv32a sum of the text in hexadecimal.
getHash(text) ==
    LET sum == Fnv32a([hi |-> 33052, lo |-> 40389],
                      [i \in 1 .. Len(text) |-> Ascii(text[i])])
    IN  StripZeros(Hex16(sum.hi) \o Hex16(sum.lo))

\* strings.LastIndex(s, ch) counted from 1: 0 where Go returns -1.
LastIndex(s, ch) ==
    LET at == {i \in 1 .. Len(s) : s[i] = ch}
    IN  IF at = {} THEN 0 ELSE CHOOSE i \in at : \A j \in at : j <= i

\* The %s verb with no precision: the text as it is.
PrecisionNone(text, n) == text

\* fmt.Sprintf("%.[2]*[1]s", text, n): the first n characters of the text, all
\* of it when it has fewer.
Precision(text, n) == SubSeq(text, 1, Min(n, Len(text)))

sessionName(roleARN, remoteIP) ==
    LET idx == LastIndex(roleARN, "/")
        name == getHash(remoteIP) \o <<"-">> \o SubSeq(roleARN, idx + 1, Len(roleARN))
    IN  Precision(name, MaxSessNameLength)

\* The texts sessionName is called with, as sequences of characters. A role
\* ARN is one of three beginnings (none, the base ARN, the base ARN and a
\* path) followed by a role name of 0 to MaxNameLen characters.
SessionIPs ==
    {<<>>, <<"1", "0", ".", "0", ".", "0", ".", "5">>,
     <<"1", "0", ".", "0", ".", "0", ".", "6">>}

\* The characters of BaseARN.
BaseARNText ==
    <<"a", "r", "n", ":", "a", "w", "s", ":", "i", "a", "m", ":", ":",
      "1", "1", "1", ":", "r", "o", "l", "e", "/">>

ARNBeginnings ==
    {<<>>, BaseARNText, BaseARNText \o <<"t", "e", "a", "m", "/">>}

RoleNameOfLen(n) == [i \in 1 .. n |-> <<"s", "v", "c", "-", "x">>[(i % 5) + 1]]

SessionARNs == {b \o RoleNameOfLen(n) : b \in ARNBeginnings, n \in 0 .. MaxNameLen}

InitName == sess = None

\* AssumeRole's sessionName(roleARN, remoteIP) for the RoleSessionName.
SessionNameCall(roleARN, remoteIP) ==
    /\ sess = None
    /\ sess' = [roleARN |-> roleARN, remoteIP |-> remoteIP,
                name |-> sessionName(roleARN, remoteIP)]
    /\ UNCHANGED aroundName

\* The name has gone into the AssumeRoleInput.
SessionNameUsed ==
    /\ sess # None
    /\ sess' = None
    /\ UNCHANGED aroundName

NextName ==
    \/ \E roleARN \in SessionARNs, remoteIP \in SessionIPs :
          SessionNameCall(roleARN, remoteIP)
    \/ SessionNameUsed

(***************************************************************************)
(* server/server.go: the router of Server.Run and the handlers behind it   *)
(***************************************************************************)

\* r.RemoteAddr of the requests: two pods' addresses and an IPv6 client's.
RemoteAddrs ==
    {ip \o <<":", "8", "0">> : ip \in SessionIPs \ {<<>>}}
        \cup {<<"[", ":", ":", "1", "]", ":", "8", "0">>}

\* strings.IndexByte(s, ch) counted from 1: 0 where Go returns -1.
IndexByte(s, ch) ==
    LET at == {i \in 1 .. Len(s) : s[i] = ch}
    IN  IF at = {} THEN 0 ELSE CHOOSE i \in at : \A j \in at : i <= j

\* net.ParseIP(host) # nil, for the dotted texts: digits and three dots.
IsIP(host) ==
    /\ \A i \in 1 .. Len(host) :
          host[i] \in {".", "0", "1", "2", "3", "4", "5", "6", "7", "8", "9"}
    /\ Cardinality({i \in 1 .. Len(host) : host[i] = "."}) = 3
    /\ Len(host) >= 7

\* parseRemoteAddr: the text before the first ":" if it is an IP, else "".
parseRemoteAddr(addr) ==
    LET n == IndexByte(addr, ":") - 1
        hostname == SubSeq(addr, 1, n)
    IN  IF n <= 1 THEN <<>>
        ELSE IF ~IsIP(hostname) THEN <<>>
        ELSE hostname

Methods == {"GET", "PUT"}

\* Values of the X-aws-ec2-metadata-token header, "" when it is absent.
Tokens == {"", "AQAEtoken"}

\* r.URL.Path as its segments: "/a/b/" is <<"a", "b", "">>.
SecurityCredentials == <<"latest", "meta-data", "iam", "security-credentials">>

Paths ==
    {SecurityCredentials, SecurityCredentials \o <<"">>}
        \cup {SecurityCredentials \o <<role>> : role \in WantedRoles}
        \cup {<<"healthz">>, <<"latest", "api", "token">>,
              <<"a", "latest", "api", "token">>,
              <<"latest", "meta-data", "instance-id">>,
              <<"debug", "pprof", "heap">>, <<"debug", "pprof", "trace">>,
              <<"debug", "store">>}

\* tokenRouteRegexp ^/?[^/]+/api/token$: one non-empty segment, api, token.
tokenRouteRegexp(path) ==
    Len(path) = 3 /\ path[1] # "" /\ path[2] = "api" /\ path[3] = "token"

\* The template /{version}/meta-data/iam/security-credentials on the first
\* four segments of a path.
IsSecurityCredentials(path) ==
    /\ Len(path) >= 4
    /\ path[1] # ""
    /\ SubSeq(path, 2, 4) = SubSeq(SecurityCredentials, 2, 4)

\* The mux router with the role-credentials route registered ahead of the
\* two role-name routes.
RouteCredentialsFirst(path) ==
    IF path = <<"debug", "pprof", "trace">> THEN "pprof.Trace"
    ELSE IF Len(path) >= 3 /\ SubSeq(path, 1, 2) = <<"debug", "pprof">> THEN "pprof.Index"
    ELSE IF Debug /\ path = <<"debug", "store">> THEN "debugStoreHandler"
    ELSE IF IsSecurityCredentials(path) /\ Len(path) >= 5 THEN "roleHandler"
    ELSE IF IsSecurityCredentials(path) THEN "securityCredentialsHandler"
    ELSE IF path = <<"healthz">> THEN "healthHandler"
    ELSE "reverseProxyHandler"

\* The mux router: the first route registered, in Run's order, that matches.
\* /debug/store is registered only when s.Debug is set.
Route(path) ==
    IF path = <<"debug", "pprof", "trace">> THEN "pprof.Trace"
    ELSE IF Len(path) >= 3 /\ SubSeq(path, 1, 2) = <<"debug", "pprof">> THEN "pprof.Index"
    ELSE IF Debug /\ path = <<"debug", "store">> THEN "debugStoreHandler"
    ELSE IF IsSecurityCredentials(path) /\ Len(path) = 4 THEN "securityCredentialsHandler"
    ELSE IF IsSecurityCredentials(path) /\ Len(path) = 5 /\ path[5] = ""
         THEN "securityCredentialsHandler"
    ELSE IF IsSecurityCredentials(path) THEN "roleHandler"
    ELSE IF path = <<"healthz">> THEN "healthHandler"
    ELSE "reverseProxyHandler"

\* The handlers registered through newAppHandler, whose ServeHTTP recovers.
AppHandlers ==
    {"securityCredentialsHandler", "debugStoreHandler", "healthHandler",
     "reverseProxyHandler"}

\* A response nothing has been written to.
NewResponse == [status |-> 0, body |-> <<>>, aborted |-> FALSE]

\* http.ResponseWriter.WriteHeader: only the first call counts.
WriteHeader(rw, code) == IF rw.status = 0 THEN [rw EXCEPT !.status = code] ELSE rw

\* http.ResponseWriter.Write: sends the 200 header if none was sent yet.
Write(rw, data) == [WriteHeader(rw, 200) EXCEPT !.body = Append(@, data)]

\* http.Error(w, msg, code)
HttpError(rw, msg, code) == Write(WriteHeader(rw, code), [msg |-> msg])

\* Server.HostIP
HostIP == "10.1.2.3"

InitCfg ==
    /\ NamespaceRestriction \in BOOLEAN
    /\ iamBaseARN \in {<<>>, BaseARNText}
    /\ Debug \in BOOLEAN

InitServer ==
    /\ HealthcheckFailReason = ""
    /\ InstanceID = ""
    /\ serving = TRUE
    /\ rq = None
    /\ route = ""
    /\ hstep = "idle"
    /\ w = NewResponse
    /\ fwd = None
    /\ fault = None
    /\ mapped = None
    /\ calls = {}

\* What a handler of the server leaves alone besides the server's own state.
aroundServer == <<storeVars, brokerVars, nameVars, cfgVars, envVars, retryVars>>

\* http.ListenAndServe hands a request to the router, which picks its handler.
Accept(method, path, token, addr) ==
    /\ serving
    /\ hstep = "idle"
    /\ rq' = [method |-> method, path |-> path, token |-> token,
              RemoteAddr |-> addr, from |-> addr]
    /\ route' = Route(path)
    /\ hstep' = "dispatched"
    /\ UNCHANGED <<HealthcheckFailReason, InstanceID, serving, w, fwd, fault,
                   mapped, calls>>
    /\ UNCHANGED aroundServer

\* reverseProxyHandler's condition with the method of the token's request
\* left out of it.
ScrubsAnyToken(method, path, token) == tokenRouteRegexp(path) \/ token # ""

\* reverseProxyHandler's condition for r.RemoteAddr = "".
ScrubsRemoteAddr(method, path, token) ==
    \/ method = "PUT" /\ tokenRouteRegexp(path)
    \/ method = "GET" /\ token # ""

\* The statuses the metadata endpoint answers with, 502 being the proxy's own
\* answer when the endpoint cannot be reached.
UpstreamStatuses == {200, 404, 502}

\* reverseProxyHandler: RemoteAddr is emptied for the token cases, then the
\* request goes to the metadata endpoint and its answer is copied back.
reverseProxyHandler(upstream) ==
    LET addr == IF ScrubsRemoteAddr(rq.method, rq.path, rq.token)
                THEN <<>> ELSE rq.RemoteAddr
    IN  /\ hstep = "dispatched" /\ route = "reverseProxyHandler"
        /\ rq' = [rq EXCEPT !.RemoteAddr = addr]
        /\ fwd' = [method |-> rq.method, path |-> rq.path, RemoteAddr |-> addr]
        /\ w' = Write(WriteHeader(w, upstream), [upstream |-> upstream])
        /\ calls' = {"metadata"}
        /\ hstep' = "finished"
        /\ UNCHANGED <<HealthcheckFailReason, InstanceID, serving, route, fault, mapped>>
        /\ UNCHANGED aroundServer

\* The same, but the copy of the endpoint's answer breaks off after its
\* header went out: httputil.ReverseProxy panics with http.ErrAbortHandler,
\* appHandler.ServeHTTP recovers it and calls http.Error on the response.
reverseProxyCopyAborted(upstream) ==
    LET addr == IF ScrubsRemoteAddr(rq.method, rq.path, rq.token)
                THEN <<>> ELSE rq.RemoteAddr
        abort == [kind |-> "error", msg |-> "net/http: abort Handler", site |-> "copy"]
    IN  /\ hstep = "dispatched" /\ route = "reverseProxyHandler"
        /\ upstream # 502
        /\ rq' = [rq EXCEPT !.RemoteAddr = addr]
        /\ fwd' = [method |-> rq.method, path |-> rq.path, RemoteAddr |-> addr]
        /\ w' = HttpError(WriteHeader(w, upstream), abort.msg, 500)
        /\ fault' = abort
        /\ calls' = {"metadata"}
        /\ hstep' = "finished"
        /\ UNCHANGED <<HealthcheckFailReason, InstanceID, serving, route, mapped>>
        /\ UNCHANGED aroundServer

\* pprof.Index and pprof.Trace, registered as plain handler functions.
pprofHandler ==
    /\ hstep = "dispatched" /\ route \in {"pprof.Index", "pprof.Trace"}
    /\ w' = Write(w, [pprof |-> rq.path])
    /\ hstep' = "finished"
    /\ UNCHANGED <<HealthcheckFailReason, InstanceID, serving, rq, route, fwd,
                   fault, mapped, calls>>
    /\ UNCHANGED aroundServer

\* debugStoreHandler: the role mapper's debug dump as JSON, or 500 with the
\* error of json.Marshal.
debugStoreHandler(err) ==
    /\ hstep = "dispatched" /\ route = "debugStoreHandler"
    /\ w' = IF err # "" THEN HttpError(w, err, 500)
            ELSE Write(w, [debug |-> "DumpDebugInfo"])
    /\ hstep' = "finished"
    /\ UNCHANGED <<HealthcheckFailReason, InstanceID, serving, rq, route, fwd,
                   fault, mapped, calls>>
    /\ UNCHANGED aroundServer

\* strings.HasPrefix and strings.TrimPrefix
HasPrefix(text, prefix) ==
    Len(text) >= Len(prefix) /\ SubSeq(text, 1, Len(prefix)) = prefix

TrimPrefix(text, prefix) ==
    IF HasPrefix(text, prefix) THEN SubSeq(text, Len(prefix) + 1, Len(text)) ELSE text

\* The role-name body with the base ARN's length cut off whatever the role
\* starts with.
RoleNameBodyCut(base, role) == SubSeq(role, Len(base) + 1, Len(role))

\* What securityCredentialsHandler writes for a resolved role.
RoleNameBody(base, role) ==
    IF base # <<>> /\ HasPrefix(role, base) THEN TrimPrefix(role, base) ELSE role

\* roleMapping.Role as the role mapper returns it: a role of the configured
\* account, one of another account, a bare name, the base ARN with no name
\* after it and a text shorter than the base ARN.
MappedRoles ==
    {BaseARNText \o <<"s", "v", "c">>,
     [BaseARNText EXCEPT ![14] = "2", ![15] = "2", ![16] = "2"] \o <<"s", "v", "c">>,
     <<"s", "v", "c">>,
     BaseARNText,
     SubSeq(BaseARNText, 1, 4)}

\* What s.getRoleMapping(remoteIP) returns: a role or an error.
MappingResults ==
    {[role |-> role, err |-> ""] : role \in MappedRoles}
        \cup {[role |-> <<>>, err |-> "role mapping not found"]}

\* securityCredentialsHandler: the role the mapper resolves for the caller's
\* IP is written as the body, without the base ARN in front where it has it.
securityCredentialsHandler(result) ==
    /\ hstep = "dispatched" /\ route = "securityCredentialsHandler"
    /\ mapped' = [ip |-> parseRemoteAddr(rq.RemoteAddr), role |-> result.role,
                  err |-> result.err]
    /\ w' = IF result.err # ""
            THEN HttpError(w, result.err, 500)
            ELSE Write(w, [role |-> RoleNameBody(iamBaseARN, result.role)])
    /\ hstep' = "finished"
    /\ UNCHANGED <<HealthcheckFailReason, InstanceID, serving, rq, route, fwd,
                   fault, calls>>
    /\ UNCHANGED aroundServer

\* roleHandler seen from the router: s.iam.AssumeRole is called for the role
\* of the path and its credentials, or its error with 503, are the answer.
roleHandlerServed(outcome) ==
    LET wantedRole == rq.path[5]    \* the paths tried have a one-segment role
    IN  /\ hstep = "dispatched" /\ route = "roleHandler"
        /\ w' = IF outcome = "ok"
                THEN Write(w, [credentials |-> wantedRole])
                ELSE HttpError(w, outcome, StatusOf(outcome))
        /\ calls' = {"iam.AssumeRole"}
        /\ hstep' = "finished"
        /\ UNCHANGED <<HealthcheckFailReason, InstanceID, serving, rq, route, fwd,
                       fault, mapped>>
        /\ UNCHANGED aroundServer

\* What doHealthcheck's GET of the instance id can give: the id, a transport
\* error, a status other than 200.
Probes ==
    {[errMsg |-> "", instanceID |-> "i-0abc"],
     [errMsg |-> "Error getting instance id", instanceID |-> ""],
     [errMsg |-> "Error getting instance id, got status: 503", instanceID |-> ""]}

\* doHealthcheck: the instance id is stored on success and the failure reason
\* is stored in any case, empty on success. Its only caller is
\* beginPollHealthcheck, which nothing in the program calls: Run starts no
\* poller, so this is a step of SpecPolled alone.
doHealthcheck(probe) ==
    /\ serving
    /\ (probe.errMsg = "") = metadataUp
    /\ InstanceID' = IF probe.errMsg = "" THEN probe.instanceID ELSE InstanceID
    /\ HealthcheckFailReason' = probe.errMsg
    /\ UNCHANGED <<serving, rq, route, hstep, w, fwd, fault, mapped, calls>>
    /\ UNCHANGED aroundServer

\* healthHandler answering 500 whenever no instance id is stored.
HealthAnswerNeedsID(rw, reason, instanceID) ==
    IF instanceID = "" THEN HttpError(rw, reason, 500)
    ELSE Write(rw, [hostIP |-> HostIP, instanceId |-> instanceID])

\* healthHandler's answer once len(s.HealthcheckFailReason) has been tested
\* and found 0: the health JSON from the stored fields.
HealthAnswer(rw, reason, instanceID) ==
    Write(rw, [hostIP |-> HostIP, instanceId |-> instanceID])

\* healthHandler, in the two reads it makes of s.HealthcheckFailReason: the
\* test of its length, after which an empty reason gives the health JSON, and
\* the http.Error that sends the reason as it is by then.
healthHandler ==
    /\ route = "healthHandler"
    /\ hstep \in {"dispatched", "failing"}
    /\ IF hstep = "failing"
       THEN /\ hstep' = "finished"
            /\ w' = HttpError(w, HealthcheckFailReason, 500)
       ELSE IF HealthcheckFailReason # ""
       THEN /\ hstep' = "failing"
            /\ w' = w
       ELSE /\ hstep' = "finished"
            /\ w' = HealthAnswer(w, HealthcheckFailReason, InstanceID)
    /\ UNCHANGED <<HealthcheckFailReason, InstanceID, serving, rq, route, fwd,
                   fault, mapped, calls>>
    /\ UNCHANGED aroundServer

\* The values a handler can panic with: a string, an error, anything else.
PanicValues ==
    {[kind |-> "string", msg |-> "boom", site |-> "handler"],
     [kind |-> "error", msg |-> "runtime error: invalid memory address",
      site |-> "handler"],
     [kind |-> "other", msg |-> "", site |-> "handler"]}

\* The text appHandler.ServeHTTP's recover gives http.Error.
RecoveredMessage(value) ==
    IF value.kind \in {"string", "error"} THEN value.msg ELSE "unknown error"

\* A handler panics before it has written anything (hstep "dispatched"). Under appHandler the
\* deferred recover answers 500 with the panic's text. roleHandler and the
\* pprof handlers are not under appHandler: the panic unwinds to net/http's
\* connection goroutine, which logs it and closes the connection with no
\* response.
HandlerPanics(value) ==
    /\ hstep = "dispatched"
    /\ fault' = value
    /\ w' = IF route \in AppHandlers
            THEN HttpError(w, RecoveredMessage(value), 500)
            ELSE [w EXCEPT !.aborted = TRUE]
    /\ hstep' = "finished"
    /\ UNCHANGED <<HealthcheckFailReason, InstanceID, serving, rq, route, fwd,
                   mapped, calls>>
    /\ UNCHANGED aroundServer

\* The aws-sdk-go-v2 AssumeRole makes its sts call in a goroutine of its own:
\* a panic there is recovered by nobody and ends the process.
GoroutinePanics(value) ==
    /\ impl = "sdkv2"
    /\ hstep = "dispatched" /\ route = "roleHandler"
    /\ fault' = [value EXCEPT !.site = "goroutine"]
    /\ w' = [w EXCEPT !.aborted = TRUE]
    /\ serving' = FALSE
    /\ calls' = {"iam.AssumeRole"}
    /\ hstep' = "finished"
    /\ UNCHANGED <<HealthcheckFailReason, InstanceID, rq, route, fwd, mapped>>
    /\ UNCHANGED aroundServer

\* The handler has returned and the request is over.
ServeHTTPReturns ==
    /\ hstep = "finished"
    /\ hstep' = "idle"
    /\ rq' = None
    /\ route' = ""
    /\ w' = NewResponse
    /\ fwd' = None
    /\ fault' = None
    /\ mapped' = None
    /\ calls' = {}
    /\ UNCHANGED <<HealthcheckFailReason, InstanceID, serving>>
    /\ UNCHANGED aroundServer

NextServer ==
    \/ \E method \in Methods, path \in Paths, token \in Tokens, addr \in RemoteAddrs :
          Accept(method, path, token, addr)
    \/ \E result \in MappingResults : securityCredentialsHandler(result)
    \/ \E outcome \in StsOutcomes : roleHandlerServed(outcome)
    \/ healthHandler
    \/ \E upstream \in UpstreamStatuses : reverseProxyHandler(upstream)
    \/ \E upstream \in UpstreamStatuses : reverseProxyCopyAborted(upstream)
    \/ pprofHandler
    \/ \E err \in {"", "json: unsupported value"} : debugStoreHandler(err)
    \/ \E value \in PanicValues : HandlerPanics(value)
    \/ \E value \in PanicValues : GoroutinePanics(value)
    \/ ServeHTTPReturns

(***************************************************************************)
(* server/server.go: getExternalIDMapping and the backoff.Retry it runs    *)
(***************************************************************************)

\* The largest s.BackoffMaxElapsedTime tried, in ticks of the clock.
MaxBudget == 2

\* The longest one round of the retry loop (the lookup and the time.Sleep
\* after it) takes, in ticks; the shortest is one tick.
MaxSleep == 2

\* s.BackoffMaxElapsedTime as configured: a time.Duration, 0 included.
Budgets == 0 .. MaxBudget

\* Past this reading the clock's value no longer matters to NextBackOff.
ElapsedCap == MaxBudget + MaxSleep + 1

\* What s.roleMapper.GetExternalIDMapping(IP) returns: an external id, or an
\* error with the empty id.
LookupResults ==
    {[externalID |-> "ext-1", err |-> ""],
     [externalID |-> "", err |-> "pod not found"],
     [externalID |-> "", err |-> "more than one pod"]}

\* ExponentialBackOff.NextBackOff giving up once the budget is reached or
\* passed, a budget of 0 included.
StopsAtBudget(budget, elapsed) == elapsed >= budget

\* ExponentialBackOff.NextBackOff returns backoff.Stop: MaxElapsedTime is not 0
\* and the time elapsed since Reset is greater than it. With MaxElapsedTime 0
\* it never returns Stop.
Stops(budget, elapsed) == budget # 0 /\ elapsed > budget

InitRetry == eid = None

\* getExternalIDMapping is called: the backoff is built with the server's
\* budget and backoff.Retry resets it (the elapsed time starts at 0).
getExternalIDMapping(IP, budget) ==
    /\ eid = None
    /\ eid' = [IP |-> IP, budget |-> budget, step |-> "operation", elapsed |-> 0,
               externalID |-> "", err |-> ""]
    /\ UNCHANGED <<storeVars, brokerVars, nameVars, cfgVars, serverVars, envVars>>

\* One call of the operation closure: the lookup's two results go into the
\* enclosing externalID and err. Without an error Retry returns nil and
\* getExternalIDMapping returns the id; with an error Retry asks the backoff.
operation(result) ==
    /\ eid # None /\ eid.step = "operation"
    /\ eid' = [eid EXCEPT !.externalID = result.externalID,
                          !.err = result.err,
                          !.step = IF result.err = "" THEN "returned" ELSE "backoff"]
    /\ UNCHANGED <<storeVars, brokerVars, nameVars, cfgVars, serverVars, envVars>>

\* NextBackOff returns Stop: Retry returns the operation's error and
\* getExternalIDMapping returns "" with it.
RetryStops ==
    /\ eid # None /\ eid.step = "backoff"
    /\ Stops(eid.budget, eid.elapsed)
    /\ eid' = [eid EXCEPT !.externalID = "", !.step = "returned"]
    /\ UNCHANGED <<storeVars, brokerVars, nameVars, cfgVars, serverVars, envVars>>

\* NextBackOff returns an interval: Retry sleeps and calls the operation
\* again, d ticks after the previous reading of the clock.
RetrySleeps(d) ==
    /\ eid # None /\ eid.step = "backoff"
    /\ ~Stops(eid.budget, eid.elapsed)
    /\ eid' = [eid EXCEPT !.elapsed = Min(eid.elapsed + d, ElapsedCap),
                          !.step = "operation"]
    /\ UNCHANGED <<storeVars, brokerVars, nameVars, cfgVars, serverVars, envVars>>

NextRetry ==
    \/ \E IP \in {RemoteIP(c) : c \in {1, 2}}, budget \in Budgets :
          getExternalIDMapping(IP, budget)
    \/ \E result \in LookupResults : operation(result)
    \/ RetryStops
    \/ \E d \in 1 .. MaxSleep : RetrySleeps(d)

InitEnv == metadataUp = TRUE

\* The metadata endpoint starts to fail, or answers again.
MetadataEndpointTurns ==
    /\ metadataUp' = ~metadataUp
    /\ UNCHANGED <<storeVars, brokerVars, nameVars, cfgVars, serverVars, retryVars>>

\* The server of Run beside a metadata endpoint that comes and goes.
NextProbed ==
    \/ NextServer
    \/ MetadataEndpointTurns

\* The server as it would run had Run started the healthcheck poller.
NextPolled ==
    \/ NextServer
    \/ MetadataEndpointTurns
    \/ \E probe \in Probes : doHealthcheck(probe)

Init ==
    /\ InitStore /\ InitBroker /\ InitName /\ InitCfg /\ InitServer /\ InitEnv
    /\ InitRetry

\* The store does not use the iam package: one build is enough.
InitOfStore ==
    /\ Init /\ impl = "ccache" /\ NamespaceRestriction /\ iamBaseARN = BaseARNText
    /\ ~Debug

\* The role-credentials requests with namespace restriction enforced, and
\* with it switched off.
InitOfBroker == Init /\ NamespaceRestriction /\ iamBaseARN = BaseARNText /\ ~Debug
InitOfOpen == Init /\ ~NamespaceRestriction /\ iamBaseARN = BaseARNText /\ ~Debug

SpecStore == InitOfStore /\ [][NextStore]_vars

SpecBroker == InitOfBroker /\ [][NextBroker]_vars

SpecOpen == InitOfOpen /\ [][NextBroker]_vars

\* The ccache build's AssumeRole under callers with external IDs.
SpecExternalID == InitOfStore /\ [][NextExternalID]_vars

SpecName == InitOfStore /\ [][NextName]_vars

\* The server's handlers do not read the namespace restriction switch.
InitOfServer == Init /\ NamespaceRestriction

SpecServer == InitOfServer /\ [][NextServer]_vars

SpecPolled == InitOfServer /\ [][NextPolled]_vars

\* The server of Run with its request goroutines scheduled: a step that stays
\* possible is taken.
SpecProbed == InitOfServer /\ [][NextProbed]_vars /\ WF_vars(NextServer)

\* getExternalIDMapping on a goroutine that keeps being scheduled.
SpecRetry == InitOfStore /\ [][NextRetry]_vars /\ WF_vars(NextRetry)

\* SpecPolled with the poller's ticker firing every interval.
SpecPolledFair ==
    /\ InitOfServer /\ [][NextPolled]_vars
    /\ WF_vars(\E probe \in Probes : doHealthcheck(probe))

(***************************************************************************)
(* Claims about the store, checked under SpecStore.                        *)
(***************************************************************************)

\* C3: once add(A, R1), the update of that pod from A to B and add(A, R2) for
\* another pod have all been handled, Get(A) is R2, wherever the delete of the
\* stale (A, R1) pod fell among them.
C3_IPReuseResolvesNewRole ==
    (scn.on /\ scn.stage = 3 /\ upd = None) => GetRole(rolesByIP, ScnA) = "R2"

\* C4: an OnDelete for a pod whose role is not the one stored for its IP leaves
\* the map as it was.
C4_StaleDeleteIsNoOp ==
    [][\A obj \in Pods :
          (/\ OnDelete(obj)
           /\ obj.ip \in DOMAIN rolesByIP
           /\ rolesByIP[obj.ip] # obj.role) => rolesByIP' = rolesByIP]_vars

\* C5: a Get that runs while an OnUpdate is in progress reads the map either as
\* it was before the update or as it is after it.
C5_ReadSeesPreOrPost ==
    [][(got = None /\ got' # None /\ upd # None)
          => rolesByIP \in {upd.pre, OnAddMap(rolesByIP, upd.new)}]_vars

\* C6: after an OnUpdate whose old and new pod have the same non-empty IP and
\* different role annotations, Get of that IP is the new pod's role.
C6_RoleChangeReplacesInPlace ==
    (/\ upd = None
     /\ lastEv.op = "update"
     /\ lastEv.obj.isPod /\ lastEv.newObj.isPod
     /\ lastEv.obj.ip = lastEv.newObj.ip /\ lastEv.newObj.ip # ""
     /\ lastEv.newObj.role # NoAnnotation
     /\ lastEv.newObj.role # lastEv.obj.role)
    => GetRole(rolesByIP, lastEv.newObj.ip) = lastEv.newObj.role

\* C7: handling an add event a second time, right after handling it once,
\* changes neither the map nor the result of Get for any IP.
C7_AddIdempotent ==
    [][(lastEv.op = "add" /\ lastEv' = lastEv /\ repeated')
          => /\ rolesByIP' = rolesByIP
             /\ \A IP \in PodIPs : GetRole(rolesByIP', IP) = GetRole(rolesByIP, IP)]_vars

\* C7 witness: an add of a pod with an IP and a role was handled twice in a row
\* and the pod's role is stored.
C7_Witness ==
    /\ repeated /\ lastEv.op = "add" /\ lastEv.obj.isPod
    /\ lastEv.obj.ip # "" /\ lastEv.obj.role # NoAnnotation
    /\ lastEv.obj.ip \in DOMAIN rolesByIP
    /\ rolesByIP[lastEv.obj.ip] = lastEv.obj.role

\* C8: every Get returns the role stored for the IP if there is one and the
\* default role if there is none; a Get of the IP of the pod whose delete was
\* the last event handled returns the default role.
C8_GetReturnsRoleOrDefault ==
    [][(got = None /\ got' # None)
          => /\ got'.role = IF got'.ip \in DOMAIN rolesByIP
                            THEN rolesByIP[got'.ip] ELSE defaultRole
             /\ (/\ lastEv.op = "delete" /\ lastEv.obj.isPod
                 /\ lastEv.obj.ip # "" /\ lastEv.obj.ip = got'.ip)
                => got'.role = defaultRole]_vars

\* C8 witness: a Get of the IP of the pod just deleted has returned the default
\* role while another IP still has its role.
C8_Witness ==
    /\ got # None /\ got.ip # "" /\ got.role = defaultRole
    /\ lastEv.op = "delete" /\ lastEv.obj.isPod /\ lastEv.obj.ip = got.ip
    /\ lastEv.obj.role # NoAnnotation
    /\ \E IP \in DOMAIN rolesByIP : GetRole(rolesByIP, IP) # defaultRole

(***************************************************************************)
(* Claims about the role-credentials route, checked under SpecBroker.      *)
(***************************************************************************)

\* C1: a request for a role its caller's namespace does not permit never
\* reaches the sts call: it ends with a 4xx status and no remote call made.
C1_DeniedBeforeBroker ==
    \A c \in Callers :
        (pc[c] # "idle" /\ ~IsAuthorized(RemoteIP(c), req[c].role))
        => /\ pc[c] = "done"
           /\ resp[c].status \in 400 .. 499
           /\ ~resp[c].remote

\* C2: in the build with the cache, requests that miss it for the same role
\* ARN at the same time share one sts call: no two of them are inside the call
\* together, and two that overlapped answer with the same credentials.
C2_MissesCoalesced ==
    \A c \in Callers : \A d \in Callers \ {c} :
        impl = "ccache" =>
        /\ ~(/\ pc[c] = "fetch" /\ pc[d] = "fetch"
             /\ RoleARN(req[c].role) = RoleARN(req[d].role))
        /\ (/\ pc[c] = "done" /\ pc[d] = "done" /\ d \in req[c].peers
            /\ resp[c].status = 200 /\ resp[d].status = 200)
           => resp[c].creds = resp[d].creds

\* C9: a request for a role ARN whose stored credentials are younger than the
\* TTL is answered 200 with those credentials, makes no sts call and leaves the
\* cache as it is, whichever caller it comes from.
C9_LiveEntryServedFromCache ==
    [][\A c \in Callers, role \in WantedRoles :
          (/\ roleHandler(c, role)
           /\ cache[RoleARN(role)] # None
           /\ now < cache[RoleARN(role)].expires)
          => /\ pc'[c] = "done"
             /\ resp'[c] = [status |-> 200, creds |-> cache[RoleARN(role)].creds,
                            err |-> "", remote |-> FALSE]
             /\ issued' = issued
             /\ cache' = cache]_vars

\* C9 witness: within the TTL of credentials that one caller's sts call
\* obtained, a request of another caller for the same role was answered from
\* the cache with the same credentials.
C9_Witness ==
    \E c \in Callers : \E d \in Callers \ {c} :
        /\ RemoteIP(c) # RemoteIP(d)
        /\ pc[c] = "done" /\ pc[d] = "done" /\ req[c].role = req[d].role
        /\ resp[d].status = 200 /\ resp[d].remote
        /\ resp[c].status = 200 /\ ~resp[c].remote
        /\ resp[c].creds = resp[d].creds
        /\ cache[RoleARN(req[c].role)].creds = resp[c].creds
        /\ now < cache[RoleARN(req[c].role)].expires

\* C10: a request for a role ARN whose stored credentials are older than the
\* TTL goes to sts; when sts returns credentials the request answers with them
\* and they replace the stored ones for a new TTL, and when sts returns an
\* error the request answers 503: the expired credentials are never returned.
C10_ExpiredEntryRefetched ==
    [][/\ \A c \in Callers, role \in WantedRoles :
             (/\ roleHandler(c, role)
              /\ cache[RoleARN(role)] # None
              /\ cache[RoleARN(role)].expires < now)
             => /\ pc'[c] = "fetch"
                /\ req'[c].stale = cache[RoleARN(role)].creds
       /\ \A c \in Callers :
             (pc[c] = "fetch" /\ req[c].stale # 0 /\ pc'[c] = "done")
             => /\ issued' = issued + 1
                /\ resp'[c].remote
                /\ resp'[c].creds # req[c].stale
                /\ resp'[c].status \in {200, 503}
                /\ resp'[c].status = 200
                   => /\ resp'[c].creds = issued'
                      /\ cache'[RoleARN(req[c].role)] =
                            [creds |-> issued', expires |-> now + CacheTTL]
                /\ resp'[c].status = 503 => cache' = cache]_vars

\* C10 witness: a request that found expired credentials has answered 200 with
\* newly issued ones, which are now the stored ones.
C10_Witness ==
    \E c \in Callers :
        /\ pc[c] = "done" /\ req[c].stale # 0
        /\ resp[c].status = 200 /\ resp[c].remote
        /\ resp[c].creds # req[c].stale
        /\ cache[RoleARN(req[c].role)].creds = resp[c].creds
        /\ cache[RoleARN(req[c].role)].expires = now + CacheTTL

\* C11: when the sts call of a request fails, the request answers with the
\* error and the cache is exactly what it was, and every request for a role
\* ARN with nothing stored goes to sts.
C11_FailureLeavesCacheAlone ==
    [][/\ \A c \in Callers, outcome \in StsOutcomes \ {"ok"} :
             AssumeRoleReturn(c, outcome)
             => /\ cache' = cache
                /\ resp'[c].err = outcome /\ resp'[c].creds = 0
                /\ resp'[c].remote
       /\ \A c \in Callers, role \in WantedRoles :
             (roleHandler(c, role) /\ cache[RoleARN(role)] = None)
             => pc'[c] = "fetch"]_vars

\* C11 witness: one request's sts call failed with nothing stored for its
\* role ARN; a request for the same role that began after that failure is
\* inside its own sts call, and still nothing is stored.
C11_Witness ==
    \E c \in Callers : \E d \in Callers \ {c} :
        /\ impl = "ccache"
        /\ pc[c] = "done" /\ resp[c].status = 503 /\ resp[c].remote
        /\ req[c].stale = 0
        /\ pc[d] = "fetch" /\ req[d].role = req[c].role
        /\ c \notin req[d].peers /\ d \notin req[c].peers
        /\ cache[RoleARN(req[c].role)] = None

\* C12: a request whose sts call fails with a permanent error answers with
\* that error after the one call; a request whose sts call fails with a
\* transient error calls sts again unless its elapsed-time budget is spent,
\* which it cannot be while the server has run for less than the budget.
C12_TransientRetriedWithinBudget ==
    [][\A c \in Callers :
          /\ (AssumeRoleReturn(c, "AccessDenied") \/ AssumeRoleV2Return(c, "AccessDenied"))
             => /\ pc'[c] = "done" /\ issued' = issued + 1
                /\ resp'[c].err = "AccessDenied"
          /\ (/\ AssumeRoleReturn(c, "Throttling") \/ AssumeRoleV2Return(c, "Throttling")
              /\ now < BackoffMaxElapsedTime)
             => pc'[c] = "fetch"]_vars

\* C16: a role-credentials request whose AssumeRole failed, with whatever
\* error, is answered 503 with no credentials, never 500 or 200; one whose
\* AssumeRole succeeded is answered 200 with credentials sts issued.
C16_BrokerFailureIs503 ==
    \A c \in Callers :
        pc[c] = "done" =>
            IF resp[c].err # ""
            THEN resp[c].status = 503 /\ resp[c].creds = 0
            ELSE resp[c].status = 200 /\ resp[c].creds \in 1 .. issued

\* C16 witness: of two finished requests one was answered 503 after a
\* permanent sts error and the other 200 with credentials.
C16_Witness ==
    \E c \in Callers : \E d \in Callers \ {c} :
        /\ pc[c] = "done" /\ resp[c].err = "AccessDenied" /\ resp[c].status = 503
        /\ pc[d] = "done" /\ resp[d].status = 200 /\ resp[d].creds > 0

(***************************************************************************)
(* Claims about sessionName, checked under SpecName.                       *)
(***************************************************************************)

\* C13: for every role ARN, with a "/" or without, and every caller IP, the
\* session name has at most 64 characters and is the first 64 characters, or
\* all of them if there are fewer, of the hash of the IP, a "-" and the part
\* of the ARN after its last "/" (the whole ARN when it has none).
C13_SessionNameBounded ==
    sess # None =>
    \E k \in 0 .. Len(sess.roleARN) :
        LET rest == SubSeq(sess.roleARN, k + 1, Len(sess.roleARN))
            full == getHash(sess.remoteIP) \o <<"-">> \o rest
        IN  /\ k = 0 \/ sess.roleARN[k] = "/"
            /\ \A i \in 1 .. Len(rest) : rest[i] # "/"
            /\ Len(sess.name) <= 64
            /\ Len(sess.name) = IF Len(full) < 64 THEN Len(full) ELSE 64
            /\ \A i \in 1 .. Len(sess.name) : sess.name[i] = full[i]

\* C13 witness: a role ARN with two "/" whose last part, with the hash and
\* the "-" before it, is longer than 64 characters, gave a name of 64.
C13_Witness ==
    /\ sess # None
    /\ Cardinality({i \in 1 .. Len(sess.roleARN) : sess.roleARN[i] = "/"}) = 2
    /\ Len(sess.roleARN) - LastIndex(sess.roleARN, "/") > 55
    /\ Len(sess.remoteIP) > 0
    /\ Len(sess.name) = 64

(***************************************************************************)
(* Claims about the router and its handlers, checked under SpecServer.     *)
(***************************************************************************)

\* C14 as stated: whichever handler serves it, a request that is a PUT to
\* /{version}/api/token or a GET with a non-empty token header has had its
\* RemoteAddr emptied before a handler looks its caller up by address and
\* before it is forwarded; any other request that is forwarded keeps its
\* RemoteAddr.
C14_TokenRequestsScrubbed ==
    (hstep = "finished" /\ fault = None /\ (mapped # None \/ fwd # None)) =>
        IF \/ rq.method = "PUT" /\ Len(rq.path) = 3 /\ rq.path[1] # ""
              /\ rq.path[2] = "api" /\ rq.path[3] = "token"
           \/ rq.method = "GET" /\ rq.token # ""
        THEN /\ rq.RemoteAddr = <<>>
             /\ mapped # None => mapped.ip = <<>>
             /\ fwd # None => fwd.RemoteAddr = <<>>
        ELSE fwd # None => fwd.RemoteAddr = rq.from

\* C14 amended: a request handed to reverseProxyHandler is forwarded with an
\* empty RemoteAddr if it is a PUT to /{version}/api/token or a GET with a
\* non-empty token header, and with the RemoteAddr it arrived with otherwise;
\* the requests handed to any other handler are not forwarded and keep their
\* RemoteAddr whatever header they carry.
C14_ProxyScrubsTokenRequests ==
    hstep = "finished" =>
        /\ fwd # None =>
              /\ route = "reverseProxyHandler"
              /\ rq.RemoteAddr = fwd.RemoteAddr
              /\ fwd.RemoteAddr =
                    IF \/ rq.method = "PUT" /\ Len(rq.path) = 3 /\ rq.path[1] # ""
                          /\ rq.path[2] = "api" /\ rq.path[3] = "token"
                       \/ rq.method = "GET" /\ rq.token # ""
                    THEN <<>> ELSE rq.from
        /\ route # "reverseProxyHandler" => fwd = None /\ rq.RemoteAddr = rq.from

\* C14 witness: a PUT to /latest/api/token from a pod's address has been
\* forwarded to the metadata endpoint with no RemoteAddr.
C14_Witness ==
    /\ hstep = "finished" /\ route = "reverseProxyHandler" /\ fault = None
    /\ rq.method = "PUT" /\ rq.path = <<"latest", "api", "token">>
    /\ parseRemoteAddr(rq.from) # <<>>
    /\ fwd # None /\ fwd.RemoteAddr = <<>> /\ w.status = 200

\* C15: on each of the role-name, role-credentials, health and passthrough
\* routes, a request whose handler panicked, in the request's own goroutine
\* and before it wrote anything, is answered 500 with the panic's message,
\* and the server goes on serving.
C15_PanicsAnswered500 ==
    (/\ hstep = "finished" /\ fault # None /\ fault.site = "handler"
     /\ route \in {"securityCredentialsHandler", "roleHandler", "healthHandler",
                   "reverseProxyHandler"})
    => /\ serving
       /\ ~w.aborted
       /\ w.status = 500
       /\ fault.kind \in {"string", "error"}
             => \E i \in 1 .. Len(w.body) : w.body[i] = [msg |-> fault.msg]

\* C17: the step that completes a health request calls no remote service and
\* leaves the stored liveness fields alone; its answer is 500 with the stored
\* failure reason if that reason is not empty, and otherwise 200 with the
\* JSON of the host IP and the stored instance id.
C17_HealthFromCachedState ==
    [][(/\ route = "healthHandler" /\ hstep # "finished"
        /\ hstep' = "finished" /\ fault' = None)
       => /\ calls' = {}
          /\ UNCHANGED <<HealthcheckFailReason, InstanceID>>
          /\ IF HealthcheckFailReason # ""
             THEN /\ w'.status = 500
                  /\ w'.body = <<[msg |-> HealthcheckFailReason]>>
             ELSE /\ w'.status = 200
                  /\ w'.body = <<[hostIP |-> HostIP, instanceId |-> InstanceID]>>]_vars

\* C17 witness: a GET of /healthz has been answered 200 with the health JSON
\* and no remote call was made for it.
C17_Witness ==
    /\ hstep = "finished" /\ route = "healthHandler" /\ fault = None
    /\ rq.method = "GET" /\ rq.path = <<"healthz">>
    /\ w.status = 200 /\ calls = {}
    /\ w.body = <<[hostIP |-> HostIP, instanceId |-> InstanceID]>>

\* C18: the body of a role-name answer is the resolved role without the base
\* ARN in front if a base ARN is configured and the role starts with it, and
\* the resolved role as it is otherwise; when resolving fails the answer is
\* 500.
C18_RoleNameStripsBaseARN ==
    (/\ hstep = "finished" /\ route = "securityCredentialsHandler"
     /\ fault = None)
    => /\ mapped # None
       /\ IF mapped.err # "" THEN w.status = 500
          ELSE /\ w.status = 200
               /\ Len(w.body) = 1
               /\ IF /\ iamBaseARN # <<>>
                     /\ Len(mapped.role) >= Len(iamBaseARN)
                     /\ \A i \in 1 .. Len(iamBaseARN) : mapped.role[i] = iamBaseARN[i]
                  THEN iamBaseARN \o w.body[1].role = mapped.role
                  ELSE w.body[1].role = mapped.role

\* C18 witness: with a base ARN configured, a role of that account has been
\* answered as its bare name.
C18_Witness ==
    /\ hstep = "finished" /\ route = "securityCredentialsHandler"
    /\ fault = None /\ iamBaseARN # <<>>
    /\ mapped # None /\ mapped.err = ""
    /\ mapped.role = iamBaseARN \o <<"s", "v", "c">>
    /\ w.status = 200 /\ w.body = <<[role |-> <<"s", "v", "c">>]>>

(***************************************************************************)
(* Claims about the role roleHandler brokers for (SpecOpen, SpecBroker)    *)
(***************************************************************************)

\* C19: with namespace restriction off and no restriction records, a
\* credentials request from an address the store has no role for is answered
\* with credentials brokered for the store's fallback role, whatever role the
\* path names.
C19_UnregisteredGetsFallbackRole ==
    \A c \in Callers :
        (/\ pc[c] = "done" /\ resp[c].status = 200
         /\ RemoteIP(c) \notin DOMAIN rolesByIP)
        => req[c].arn = RoleARN(GetRole(rolesByIP, RemoteIP(c)))

\* C20: the role ARN roleHandler hands to AssumeRole is the base ARN followed
\* by the role of the path, for every caller address and whatever role the
\* store resolves for that address; two requests for the same path role are
\* brokered for the same ARN.
C20_ARNFromPathAlone ==
    /\ \A c \in Callers : pc[c] # "idle" => req[c].arn = RoleARN(req[c].role)
    /\ \A c, d \in Callers :
          (pc[c] # "idle" /\ pc[d] # "idle" /\ req[c].role = req[d].role)
          => req[c].arn = req[d].arn

\* C20 witness: requests from two different addresses for the same path role,
\* which is not the role the store resolves for either address, are brokered
\* for the ARN of the path role, and one of them has its credentials.
C20_Witness ==
    \E c, d \in Callers :
        /\ RemoteIP(c) # RemoteIP(d)
        /\ pc[c] = "done" /\ pc[d] # "idle"
        /\ resp[c].status = 200
        /\ req[c].role = req[d].role
        /\ GetRole(rolesByIP, RemoteIP(c)) # req[c].role
        /\ GetRole(rolesByIP, RemoteIP(d)) # req[d].role
        /\ req[c].arn = RoleARN(req[c].role)
        /\ req[d].arn = RoleARN(req[d].role)

(***************************************************************************)
(* Claims about the healthcheck poller (SpecProbed)                        *)
(***************************************************************************)

\* C21: while the process runs, failed probes do not end the probing: if the
\* metadata endpoint comes to fail for good, the stored failure reason comes
\* to be non-empty for good (the health route answers 500), and if it comes
\* to answer for good, the stored reason comes to be empty for good (the
\* health route answers 200 again).
C21_ProbesOutliveFailures ==
    /\ ([]serving /\ <>[](~metadataUp)) => <>[](HealthcheckFailReason # "")
    /\ ([]serving /\ <>[]metadataUp) => <>[](HealthcheckFailReason = "")

(***************************************************************************)
(* Claims about getExternalIDMapping (SpecRetry)                           *)
(***************************************************************************)

RetryReturnValues ==
    (eid # None /\ eid.step = "returned")
    => \/ eid.err = "" /\ eid.externalID = "ext-1"
       \/ /\ eid.err # "" /\ eid.externalID = ""
          /\ eid.budget # 0 /\ eid.elapsed > eid.budget

OnSecurityCredentials(path, n) ==
    /\ Len(path) = 4 + n
    /\ path[1] # "" /\ path[2] = "meta-data" /\ path[3] = "iam"
    /\ path[4] = "security-credentials"

\* What each handler leaves behind once it has returned without a panic: the
\* role-name handler a role lookup and nothing else, the credentials handler
\* a broker call, the proxy a forwarded request and neither of the two.
HandlerTraces ==
    (hstep = "finished" /\ fault = None)
    => /\ route = "securityCredentialsHandler"
             => mapped # None /\ calls = {} /\ fwd = None
       /\ route = "roleHandler"
             => calls = {"iam.AssumeRole"} /\ mapped = None /\ fwd = None
       /\ route = "healthHandler" => calls = {} /\ mapped = None /\ fwd = None
       /\ route = "reverseProxyHandler"
             => fwd # None /\ mapped = None /\ calls = {"metadata"}

C24_EmptyIPIgnored ==
    /\ [][\A obj \in Pods :
             ((OnAdd(obj) \/ OnDelete(obj)) /\ obj.ip = "")
             => rolesByIP' = rolesByIP]_vars
    /\ []("" \notin DOMAIN rolesByIP)

\* C24 witness: an add of a pod with a role and no IP yet was the last event
\* handled, roles are stored for other pods and none under the empty IP.
C24_Witness ==
    /\ upd = None /\ lastEv.op = "add" /\ lastEv.obj.isPod
    /\ lastEv.obj.ip = "" /\ lastEv.obj.role # NoAnnotation
    /\ DOMAIN rolesByIP # {} /\ "" \notin DOMAIN rolesByIP

\* C26: an OnAdd for a pod without the role annotation leaves the map as it
\* was: no entry appears for the pod's IP and an entry an earlier pod left
\* under that IP stays, so Get of the IP returns what it returned before.
C26_UnannotatedAddIsNoOp ==
    [][\A obj \in Pods :
          (OnAdd(obj) /\ obj.role = NoAnnotation)
          => /\ rolesByIP' = rolesByIP
             /\ GetRole(rolesByIP', obj.ip) = GetRole(rolesByIP, obj.ip)]_vars

\* C26 witness: the last event handled was the add of a pod without the
\* annotation whose IP still has the role an earlier pod was stored with.
C26_Witness ==
    /\ upd = None /\ lastEv.op = "add" /\ lastEv.obj.isPod
    /\ lastEv.obj.role = NoAnnotation /\ lastEv.obj.ip # ""
    /\ lastEv.obj.ip \in DOMAIN rolesByIP
    /\ rolesByIP[lastEv.obj.ip] \in Roles

(***************************************************************************)
(* Claims about the cache and the caller's identity (SpecExternalID)       *)
(***************************************************************************)

\* C25: a call of AssumeRole for a role ARN whose stored credentials are
\* within their TTL is answered with the stored credentials and makes no sts
\* call, whatever address and external ID the caller has: they are the
\* credentials of the caller whose sts call obtained them, also when that
\* caller presented another external ID from another address.
C25_HitIgnoresCaller ==
    [][\A c \in Callers, role \in SharedRoles : \A externalID \in ExternalIDs(c) :
          (/\ AssumeRoleWithExternalID(c, role, externalID)
           /\ cache[RoleARN(role)] # None
           /\ now < cache[RoleARN(role)].expires)
          => /\ pc'[c] = "done"
             /\ resp'[c].status = 200
             /\ ~resp'[c].remote
             /\ resp'[c].creds = cache[RoleARN(role)].creds
             /\ issued' = issued /\ InFlight = Cardinality({d \in Callers : pc'[d] = "fetch"})
             /\ cache' = cache
             /\ \A d \in Callers \ {c} :
                   (/\ pc[d] = "done" /\ resp[d].remote /\ resp[d].status = 200
                    /\ req[d].arn = RoleARN(role)
                    /\ resp[d].creds = cache[RoleARN(role)].creds)
                   => resp'[c].creds = resp'[d].creds]_vars

\* C25 witness: caller 1 obtained credentials from sts presenting external ID
\* X; within their TTL caller 2, from another address and presenting Y, was
\* answered from the cache with the same credentials.
C25_Witness ==
    /\ pc[1] = "done" /\ pc[2] = "done"
    /\ RemoteIP(1) # RemoteIP(2)
    /\ req[1].arn = req[2].arn
    /\ req[1].externalID = "X" /\ req[2].externalID = "Y"
    /\ resp[1].status = 200 /\ resp[1].remote
    /\ resp[2].status = 200 /\ ~resp[2].remote
    /\ resp[2].creds = resp[1].creds
    /\ cache[req[2].arn].creds = resp[1].creds
    /\ now < cache[req[2].arn].expires
====
